---- MODULE Spec2Model ----
(***************************************************************************)
(* Candidate-generation pipeline of clip-sens: time binning and peak       *)
(* detection (src/analyzer/comment_analyzer.py), silence segmentation and  *)
(* topic changes (src/analyzer/subtitle_analyzer.py) and the merge/score   *)
(* pass (src/analyzer/clip_generator.py).                                  *)
(*                                                                         *)
(* Times are kept in ticks, Tick ticks to the second, so that np.floor and *)
(* np.ceil act on timestamps that are not whole seconds.  Scores and         *)
(* percentile thresholds are kept in hundredths (0.3 is 30).               *)
(***************************************************************************)
EXTENDS Integers, Sequences, FiniteSets, TLC

VARIABLES
  comment_analyzer,   \* ClipGenerator.comment_analyzer is not None
  subtitle_analyzer,  \* ClipGenerator.subtitle_analyzer is not None
  chat_df,            \* CommentAnalyzer.chat_df, rows in order
  chat_bin,           \* its 'bin' column, <<>> while the frame has none
  subtitle_df,        \* SubtitleAnalyzer.subtitle_df, rows in order
  binned_df,          \* the caller's table returned by bin_comments_by_time
  raw_sorted,         \* generate_candidates: candidates, sorted by start
  merged_all,         \* _merge_and_score_candidates: merged, before the length check
  op, args, ret,      \* the last call, its arguments and what it returned
  raised,             \* the exception the last call ended with, "" for none
  parsed_from,        \* history: the entries subtitle_df was parsed from, <<>>
                      \* for a table handed to the analyzer directly
  caller_tables       \* the caller's chat_df and subtitle_df, of which the
                      \* analyzers keep copies; <<>> where only the copies matter

vars == <<comment_analyzer, subtitle_analyzer, chat_df, chat_bin, subtitle_df,
          binned_df, raw_sorted, merged_all, op, args, ret, raised, parsed_from,
          caller_tables>>

-----------------------------------------------------------------------------
(* Bounds of the model *)

Tick == 2
MaxTime == 5
MaxComments == 3
MaxBinSize == 2
MaxSubs == 3

-----------------------------------------------------------------------------
(* Arithmetic helpers *)

NaN == -1

Abs(x) == IF x < 0 THEN -x ELSE x
Min2(a, b) == IF a <= b THEN a ELSE b
Max2(a, b) == IF a >= b THEN a ELSE b
SetMin(S) == CHOOSE x \in S : \A y \in S : x <= y
SetMax(S) == CHOOSE x \in S : \A y \in S : x >= y
Range(s) == {s[i] : i \in DOMAIN s}

RECURSIVE SumSeq(_)
SumSeq(xs) == IF xs = <<>> THEN 0 ELSE Head(xs) + SumSeq(Tail(xs))

\* np.floor / np.ceil of a time given in ticks (times are >= 0)
Floor(t) == (t \div Tick) * Tick
Ceil(t) == ((t + Tick - 1) \div Tick) * Tick

\* np.arange(start, stop, step): ceil((stop - start) / step) values
arange(start, stop, step) ==
  LET n == IF stop > start THEN (stop - start + step - 1) \div step ELSE 0
  IN  [k \in 1..n |-> start + (k - 1) * step]

\* pd.cut as it would be with right=False: intervals closed on the left
cut_left_closed(x, bins) ==
  LET ids == Cardinality({k \in DOMAIN bins : bins[k] <= x})
  IN  IF ids = 0 \/ ids = Len(bins) THEN NaN ELSE ids - 1

\* pd.cut(x, bins, labels=False, include_lowest=True), right=True by default:
\* ids = bins.searchsorted(x, side='left'); ids[x == bins[0]] = 1;
\* NaN where ids == 0 or ids == len(bins); else ids - 1
cut(x, bins) ==
  LET ids == IF x = bins[1] THEN 1
             ELSE Cardinality({k \in DOMAIN bins : bins[k] < x})
  IN  IF ids = 0 \/ ids = Len(bins) THEN NaN ELSE ids - 1

-----------------------------------------------------------------------------
(* CommentAnalyzer.bin_comments_by_time *)

Timestamps(df) == {df[i].timestamp_sec : i \in DOMAIN df}

\* bins = np.arange(np.floor(min_time), np.ceil(max_time) + bin_size, bin_size)
bin_edges(df, bin_size_seconds) ==
  arange(Floor(SetMin(Timestamps(df))),
         Ceil(SetMax(Timestamps(df))) + bin_size_seconds * Tick,
         bin_size_seconds * Tick)

\* self.chat_df['bin'] = pd.cut(...)
bin_column(df, bin_size_seconds) ==
  IF df = <<>> THEN <<>>
  ELSE [i \in DOMAIN df |-> cut(df[i].timestamp_sec, bin_edges(df, bin_size_seconds))]

\* groupby('bin').size(): rows with a NaN key are dropped, empty groups are absent
group_size(col, k) == Cardinality({i \in DOMAIN col : col[i] = k})

\* the binning that groups by the 'bin' column an earlier call left on the
\* frame instead of cutting the timestamps again
bin_comments_by_time_kept_column(df, bin_size_seconds) ==
  IF df = <<>> THEN <<>>
  ELSE LET bins == bin_edges(df, bin_size_seconds)
           col  == IF Len(chat_bin) = Len(df) THEN chat_bin
                   ELSE bin_column(df, bin_size_seconds)
           labels == [j \in 1..(Len(bins) - 1) |-> j - 1]
           row(k) == [bin_start |-> bins[k + 1],
                      bin_end |-> bins[k + 2],
                      count |-> group_size(col, k),
                      comment_rate |-> <<group_size(col, k), bin_size_seconds>>]
           present(k) == group_size(col, k) > 0
           kept == SelectSeq(labels, present)
       IN  [j \in DOMAIN kept |-> row(kept[j])]

bin_comments_by_time(df, bin_size_seconds) ==
  IF df = <<>> THEN <<>>
  ELSE LET bins == bin_edges(df, bin_size_seconds)
           col  == bin_column(df, bin_size_seconds)
           labels == [j \in 1..(Len(bins) - 1) |-> j - 1]
           row(k) == [bin_start |-> bins[k + 1],
                      bin_end |-> bins[k + 2],
                      count |-> group_size(col, k),
                      comment_rate |-> <<group_size(col, k), bin_size_seconds>>]
           present(k) == group_size(col, k) > 0
           kept == SelectSeq(labels, present)
       IN  [j \in DOMAIN kept |-> row(kept[j])]

-----------------------------------------------------------------------------
(* CommentAnalyzer.find_peaks *)

Counts(df) == [i \in DOMAIN df |-> df[i].count]

\* the k-th smallest (k = 0 is the minimum) value of a non-empty sequence
kth_smallest(xs, k) ==
  CHOOSE v \in Range(xs) :
    /\ Cardinality({i \in DOMAIN xs : xs[i] < v}) <= k
    /\ k < Cardinality({i \in DOMAIN xs : xs[i] <= v})

\* a percentile taken at the lower closest rank, without interpolation
percentile100_lower(xs, q) ==
  kth_smallest(xs, ((Len(xs) - 1) * q) \div 100) * 100

\* np.percentile(xs, q) and Series.quantile(q / 100), both with linear
\* interpolation between the closest ranks, times 100: the virtual index is
\* (n - 1) * q / 100 and the value lo + frac * (hi - lo)
percentile100(xs, q) ==
  LET n   == Len(xs)
      pos == (n - 1) * q
      i   == pos \div 100
      lo  == kth_smallest(xs, i)
      hi  == kth_smallest(xs, Min2(i + 1, n - 1))
  IN  lo * 100 + (pos % 100) * (hi - lo)

\* a peak spanning its group, from the first bin's start to the last bin's end
_merge_peak_group_span(group) ==
  LET m == SetMin({i \in DOMAIN group :
                     \A j \in DOMAIN group : group[j].count <= group[i].count})
      max_row == group[m]
  IN  [time |-> group[1].bin_start,
       time_end |-> group[Len(group)].bin_end,
       count |-> max_row.count,
       comment_rate |-> max_row.comment_rate,
       percentile |-> 0]

\* max(group, key=lambda x: x['count']): the first row of maximal count
_merge_peak_group(group) ==
  LET m == SetMin({i \in DOMAIN group :
                     \A j \in DOMAIN group : group[j].count <= group[i].count})
      max_row == group[m]
  IN  [time |-> max_row.bin_start,
       time_end |-> max_row.bin_end,
       count |-> max_row.count,
       comment_rate |-> max_row.comment_rate,
       percentile |-> 0]

\* the loop with a row joining the group only when time_gap < min_gap_seconds
RECURSIVE peak_loop_strict(_, _, _, _, _)
peak_loop_strict(peaks, i, current_group, merged_peaks, min_gap) ==
  IF i > Len(peaks)
  THEN IF current_group # <<>>
       THEN Append(merged_peaks, _merge_peak_group(current_group))
       ELSE merged_peaks
  ELSE LET row == peaks[i]
       IN  IF current_group = <<>>
           THEN peak_loop_strict(peaks, i + 1, <<row>>, merged_peaks, min_gap)
           ELSE LET time_gap == row.bin_start - current_group[Len(current_group)].bin_end
                IN  IF time_gap < min_gap
                    THEN peak_loop_strict(peaks, i + 1, Append(current_group, row),
                                          merged_peaks, min_gap)
                    ELSE peak_loop_strict(peaks, i + 1, <<row>>,
                                          Append(merged_peaks, _merge_peak_group(current_group)),
                                          min_gap)

\* the loop of find_peaks over the rows at or above the threshold
RECURSIVE peak_loop(_, _, _, _, _)
peak_loop(peaks, i, current_group, merged_peaks, min_gap) ==
  IF i > Len(peaks)
  THEN IF current_group # <<>>
       THEN Append(merged_peaks, _merge_peak_group(current_group))
       ELSE merged_peaks
  ELSE LET row == peaks[i]
       IN  IF current_group = <<>>
           THEN peak_loop(peaks, i + 1, <<row>>, merged_peaks, min_gap)
           ELSE LET time_gap == row.bin_start - current_group[Len(current_group)].bin_end
                IN  IF time_gap <= min_gap
                    THEN peak_loop(peaks, i + 1, Append(current_group, row),
                                   merged_peaks, min_gap)
                    ELSE peak_loop(peaks, i + 1, <<row>>,
                                   Append(merged_peaks, _merge_peak_group(current_group)),
                                   min_gap)

\* the peaks as they would be with count > threshold
find_peaks_above_threshold(df, threshold_percentile, min_gap_seconds) ==
  IF df = <<>> THEN <<>>
  ELSE LET threshold100 == percentile100(Counts(df), threshold_percentile)
           above(r) == r.count * 100 > threshold100
           peaks == SelectSeq(df, above)
       IN  IF peaks = <<>> THEN <<>>
           ELSE peak_loop(peaks, 1, <<>>, <<>>, min_gap_seconds * Tick)

find_peaks(df, threshold_percentile, min_gap_seconds) ==
  IF df = <<>> THEN <<>>
  ELSE LET threshold100 == percentile100(Counts(df), threshold_percentile)
           above(r) == r.count * 100 >= threshold100
           peaks == SelectSeq(df, above)
       IN  IF peaks = <<>> THEN <<>>
           ELSE peak_loop(peaks, 1, <<>>, <<>>, min_gap_seconds * Tick)

-----------------------------------------------------------------------------
(* Text matching.  A text is a sequence of characters; a keyword pattern is  *)
(* a literal, or a literal character followed by +, which re.search finds    *)
(* exactly where it finds the character.                                     *)

\* re.IGNORECASE on the characters of the model
Fold(c) == IF c = "W" THEN "w" ELSE c

\* re.search(pattern, text) / Series.str.contains(pattern): found anywhere
Search(lit, text, case_sensitive) ==
  \E o \in 0..(Len(text) - Len(lit)) :
    \A j \in 1..Len(lit) :
      IF case_sensitive THEN text[o + j] = lit[j]
      ELSE Fold(text[o + j]) = Fold(lit[j])

\* a pattern with the code point of its first character, by which pandas
\* orders the keyword column
Pattern(name, lit, code) == [name |-> name, lit |-> lit, code |-> code]

\* the default reaction_keywords of generate_candidates
DefaultReactionKeywords ==
  << Pattern("w+", <<"w">>, 119),
     Pattern("kusa", <<"kusa">>, 33609),
     Pattern("wara", <<"wara">>, 31505),
     Pattern("!+", <<"!">>, 65281),
     Pattern("?+", <<"?">>, 65311),
     Pattern("sugoi", <<"su", "go", "i">>, 12377),
     Pattern("yabai", <<"ya", "ba", "i">>, 12420) >>

\* the default keywords of detect_topic_changes, in their priority order
DefaultTopicKeywords ==
  << Pattern("tsugiha", <<"tsugi", "ha">>, 27425),
     Pattern("soredeha", <<"so", "re", "de", "ha">>, 12381),
     Pattern("tsuzuite", <<"tsuzu", "i", "te">>, 32154),
     Pattern("sate", <<"sa", "te">>, 12373),
     Pattern("kokokara", <<"ko", "ko", "ka", "ra">>, 12371),
     Pattern("korekara", <<"ko", "re", "ka", "ra">>, 12371),
     Pattern("mazu", <<"ma", "zu">>, 12414),
     Pattern("saigoni", <<"saigo", "ni">>, 26368) >>

RECURSIVE Flatten(_)
Flatten(ss) == IF ss = <<>> THEN <<>> ELSE Head(ss) \o Flatten(Tail(ss))

-----------------------------------------------------------------------------
(* CommentAnalyzer.count_keywords, get_keyword_frequency_over_time *)

count_keywords(df, keywords, case_sensitive) ==
  IF df = <<>> THEN <<>>
  ELSE LET matches(kw) ==
             LET hit(r) == Search(kw.lit, r.message, case_sensitive)
                 rows == SelectSeq(df, hit)
             IN  [i \in DOMAIN rows |->
                    [keyword |-> kw.name,
                     timestamp_sec |-> rows[i].timestamp_sec,
                     message |-> rows[i].message]]
       IN  Flatten([k \in DOMAIN keywords |-> matches(keywords[k])])

\* the keywords of the list in the order sort_values gives the keyword column
RECURSIVE by_code(_)
by_code(keywords) ==
  IF keywords = <<>> THEN <<>>
  ELSE LET m == SetMin({i \in DOMAIN keywords :
                          \A j \in DOMAIN keywords : keywords[i].code <= keywords[j].code})
           rest == [i \in 1..(Len(keywords) - 1) |->
                      IF i < m THEN keywords[i] ELSE keywords[i + 1]]
       IN  <<keywords[m]>> \o by_code(rest)

get_keyword_frequency_over_time(df, keywords, bin_size_seconds) ==
  LET keyword_df == count_keywords(df, keywords, FALSE)
  IN  IF keyword_df = <<>> THEN <<>>
      ELSE LET bins == bin_edges(df, bin_size_seconds)
               kbin(i) == cut(keyword_df[i].timestamp_sec, bins)
               size(k, kw) == Cardinality({i \in DOMAIN keyword_df :
                                             kbin(i) = k /\ keyword_df[i].keyword = kw.name})
               sorted == by_code(keywords)
               rows_of(k) ==
                 LET present(kw) == size(k, kw) > 0
                     kws == SelectSeq(sorted, present)
                 IN  [j \in DOMAIN kws |->
                        [bin_start |-> bins[k + 1],
                         bin_end |-> bins[k + 2],
                         keyword |-> kws[j].name,
                         count |-> size(k, kws[j])]]
           IN  Flatten([j \in 1..(Len(bins) - 1) |-> rows_of(j - 1)])

-----------------------------------------------------------------------------
(* SubtitleAnalyzer *)

\* the rows of the frame are labelled 0 .. n-1 (reset_index) and held at 1 .. n

\* a gap only when the distance is above min_gap_seconds
detect_silence_gaps_strict(sdf, min_gap) ==
  IF Len(sdf) < 2 THEN <<>>
  ELSE LET is_gap(i) == sdf[i + 1].start - sdf[i].end > min_gap
           at == SelectSeq([i \in 1..(Len(sdf) - 1) |-> i], is_gap)
       IN  [j \in DOMAIN at |->
              [gap_start |-> sdf[at[j]].end,
               gap_end |-> sdf[at[j] + 1].start,
               gap_duration |-> sdf[at[j] + 1].start - sdf[at[j]].end]]

detect_silence_gaps(sdf, min_gap) ==
  IF Len(sdf) < 2 THEN <<>>
  ELSE LET is_gap(i) == sdf[i + 1].start - sdf[i].end >= min_gap
           at == SelectSeq([i \in 1..(Len(sdf) - 1) |-> i], is_gap)
       IN  [j \in DOMAIN at |->
              [gap_start |-> sdf[at[j]].end,
               gap_end |-> sdf[at[j] + 1].start,
               gap_duration |-> sdf[at[j] + 1].start - sdf[at[j]].end]]

\* abs(gap['gap_start'] - current_end) < 0.1 for some detected gap
has_gap(gaps, current_end) ==
  \E g \in DOMAIN gaps : 10 * Abs(gaps[g].gap_start - current_end) < Tick

\* ' '.join(texts)
join_texts(texts) ==
  IF texts = <<>> THEN <<>>
  ELSE Flatten([i \in DOMAIN texts |->
                  IF i = 1 THEN texts[i] ELSE <<" ">> \o texts[i]])

\* the loop with segment_id counting every closed run, the dropped ones too
RECURSIVE segment_loop_run_ids(_, _, _, _, _, _, _)
segment_loop_run_ids(sdf, gaps, i, segment_start, current_segment_subs, segments, min_segment_duration) ==
  IF i > Len(sdf) THEN segments
  ELSE LET row == sdf[i]
           subs == Append(current_segment_subs, row)
           closed == Cardinality({j \in 1..(i - 1) : has_gap(gaps, sdf[j].end)})
       IN  IF has_gap(gaps, row.end) \/ i = Len(sdf)
           THEN LET segment_end == row.end
                    segment_duration == segment_end - segment_start
                    emitted ==
                      IF segment_duration >= min_segment_duration
                      THEN Append(segments,
                                  [segment_id |-> closed,
                                   start |-> segment_start,
                                   end |-> segment_end,
                                   duration |-> segment_duration,
                                   subtitle_count |-> Len(subs),
                                   text |-> join_texts([j \in DOMAIN subs |-> subs[j].text])])
                      ELSE segments
                IN  IF i < Len(sdf)
                    THEN segment_loop_run_ids(sdf, gaps, i + 1, sdf[i + 1].start, <<>>,
                                              emitted, min_segment_duration)
                    ELSE emitted
           ELSE segment_loop_run_ids(sdf, gaps, i + 1, segment_start, subs, segments,
                                     min_segment_duration)

\* the loop with current_segment_subs never emptied: a segment also counts
\* the rows of the runs before it
RECURSIVE segment_loop_keeps_subs(_, _, _, _, _, _, _)
segment_loop_keeps_subs(sdf, gaps, i, segment_start, current_segment_subs, segments, min_segment_duration) ==
  IF i > Len(sdf) THEN segments
  ELSE LET row == sdf[i]
           subs == Append(current_segment_subs, row)
       IN  IF has_gap(gaps, row.end) \/ i = Len(sdf)
           THEN LET segment_end == row.end
                    segment_duration == segment_end - segment_start
                    emitted ==
                      IF segment_duration >= min_segment_duration
                      THEN Append(segments,
                                  [segment_id |-> Len(segments),
                                   start |-> segment_start,
                                   end |-> segment_end,
                                   duration |-> segment_duration,
                                   subtitle_count |-> Len(subs),
                                   text |-> join_texts([j \in DOMAIN subs |-> subs[j].text])])
                      ELSE segments
                IN  IF i < Len(sdf)
                    THEN segment_loop_keeps_subs(sdf, gaps, i + 1, sdf[i + 1].start, subs,
                                                 emitted, min_segment_duration)
                    ELSE emitted
           ELSE segment_loop_keeps_subs(sdf, gaps, i + 1, segment_start, subs, segments,
                                        min_segment_duration)

\* the loop of segment_by_silence from row i on
RECURSIVE segment_loop(_, _, _, _, _, _, _)
segment_loop(sdf, gaps, i, segment_start, current_segment_subs, segments, min_segment_duration) ==
  IF i > Len(sdf) THEN segments
  ELSE LET row == sdf[i]
           subs == Append(current_segment_subs, row)
       IN  IF has_gap(gaps, row.end) \/ i = Len(sdf)
           THEN LET segment_end == row.end
                    segment_duration == segment_end - segment_start
                    emitted ==
                      IF segment_duration >= min_segment_duration
                      THEN Append(segments,
                                  [segment_id |-> Len(segments),
                                   start |-> segment_start,
                                   end |-> segment_end,
                                   duration |-> segment_duration,
                                   subtitle_count |-> Len(subs),
                                   text |-> join_texts([j \in DOMAIN subs |-> subs[j].text])])
                      ELSE segments
                IN  IF i < Len(sdf)
                    THEN segment_loop(sdf, gaps, i + 1, sdf[i + 1].start, <<>>,
                                      emitted, min_segment_duration)
                    ELSE emitted
           ELSE segment_loop(sdf, gaps, i + 1, segment_start, subs, segments,
                             min_segment_duration)

\* segments kept only when longer than min_segment_duration
segment_by_silence_above_minimum(sdf, min_gap, min_segment_duration) ==
  IF sdf = <<>> THEN <<>>
  ELSE segment_loop(sdf, detect_silence_gaps(sdf, min_gap), 1, sdf[1].start,
                    <<>>, <<>>, min_segment_duration + 1)

segment_by_silence(sdf, min_gap, min_segment_duration) ==
  IF sdf = <<>> THEN <<>>
  ELSE segment_loop(sdf, detect_silence_gaps(sdf, min_gap), 1, sdf[1].start,
                    <<>>, <<>>, min_segment_duration)

\* the last keyword of the list found in the text, 0 when none is
last_match(keywords, text) ==
  LET hits == {k \in DOMAIN keywords : Search(keywords[k].lit, text, TRUE)}
  IN  IF hits = {} THEN 0 ELSE SetMax(hits)

\* the first keyword of the list found in the text, 0 when none is
first_match(keywords, text) ==
  LET hits == {k \in DOMAIN keywords : Search(keywords[k].lit, text, TRUE)}
  IN  IF hits = {} THEN 0 ELSE SetMin(hits)

detect_topic_changes(sdf, keywords) ==
  IF sdf = <<>> THEN <<>>
  ELSE LET matched(i) == first_match(keywords, sdf[i].text) # 0
           at == SelectSeq([i \in DOMAIN sdf |-> i], matched)
       IN  [j \in DOMAIN at |->
              [time |-> sdf[at[j]].start,
               keyword |-> keywords[first_match(keywords, sdf[at[j]].text)].name,
               text |-> sdf[at[j]].text]]

-----------------------------------------------------------------------------
(* ClipGenerator: the four producers *)

Within(duration, min_duration, max_duration) ==
  min_duration <= duration /\ duration <= max_duration

Candidate(start, end, reason, details) ==
  [start |-> start, end |-> end, reason |-> reason, score |-> 0, details |-> details]

\* the producer with the interval starting 15 seconds before the peak even
\* where that is before the start of the video
_generate_from_comment_peaks_unclamped(df, min_duration, max_duration) ==
  LET binned == bin_comments_by_time(df, 10)
      peaks == find_peaks(binned, 75, 30)
      start(pk) == pk.time - 15 * Tick
      end(pk) == Min2(pk.time_end + 30 * Tick, pk.time + 60 * Tick)
      keep(pk) == Within(end(pk) - start(pk), min_duration, max_duration)
      kept == SelectSeq(peaks, keep)
  IN  [i \in DOMAIN kept |->
         Candidate(start(kept[i]), end(kept[i]), "comment surge",
                   [peak_count |-> kept[i].count, peak_time |-> kept[i].time])]

_generate_from_comment_peaks(df, min_duration, max_duration) ==
  LET binned == bin_comments_by_time(df, 10)
      peaks == find_peaks(binned, 75, 30)
      start(pk) == Max2(0, pk.time - 15 * Tick)
      end(pk) == Min2(pk.time_end + 30 * Tick, pk.time + 60 * Tick)
      keep(pk) == Within(end(pk) - start(pk), min_duration, max_duration)
      kept == SelectSeq(peaks, keep)
  IN  [i \in DOMAIN kept |->
         Candidate(start(kept[i]), end(kept[i]), "comment surge",
                   [peak_count |-> kept[i].count, peak_time |-> kept[i].time])]

\* a candidate as a one-element list, or the empty list for None
_create_candidate_from_group(group, reason, min_duration, max_duration) ==
  IF group = <<>> THEN <<>>
  ELSE LET start == Max2(0, group[1].bin_start - 10 * Tick)
           end == group[Len(group)].bin_end + 10 * Tick
       IN  IF Within(end - start, min_duration, max_duration)
           THEN << Candidate(start, end, reason,
                             [total_count |-> SumSeq(Counts(group))]) >>
           ELSE <<>>

\* keyword_freq_df.groupby(['bin_start', 'bin_end']).sum(): one row per bin
sum_per_bin(freq) ==
  LET first(i) == \A j \in 1..(i - 1) : freq[j].bin_start # freq[i].bin_start
      heads == SelectSeq([i \in DOMAIN freq |-> i], first)
      same(i) == LET in_bin(r) == r.bin_start = freq[i].bin_start
                 IN  SelectSeq(freq, in_bin)
  IN  [h \in DOMAIN heads |->
         [bin_start |-> freq[heads[h]].bin_start,
          bin_end |-> freq[heads[h]].bin_end,
          count |-> SumSeq(Counts(same(heads[h])))]]

\* the grouping loop of _generate_from_keywords
RECURSIVE keyword_loop(_, _, _, _, _, _)
keyword_loop(rows, i, current_group, candidates, min_duration, max_duration) ==
  IF i > Len(rows)
  THEN IF current_group # <<>>
       THEN candidates \o _create_candidate_from_group(current_group, "keyword burst",
                                                       min_duration, max_duration)
       ELSE candidates
  ELSE LET row == rows[i]
       IN  IF current_group = <<>>
           THEN keyword_loop(rows, i + 1, <<row>>, candidates, min_duration, max_duration)
           ELSE IF row.bin_start - current_group[Len(current_group)].bin_end <= 20 * Tick
                THEN keyword_loop(rows, i + 1, Append(current_group, row), candidates,
                                  min_duration, max_duration)
                ELSE keyword_loop(rows, i + 1, <<row>>,
                                  candidates \o
                                    _create_candidate_from_group(current_group,
                                      "keyword burst", min_duration, max_duration),
                                  min_duration, max_duration)

_generate_from_keywords(df, keywords, min_duration, max_duration) ==
  LET freq == get_keyword_frequency_over_time(df, keywords, 10)
  IN  IF freq = <<>> THEN <<>>
      ELSE LET per_bin == sum_per_bin(freq)
               threshold100 == percentile100(Counts(per_bin), 75)
               high(r) == r.count * 100 >= threshold100
           IN  keyword_loop(SelectSeq(per_bin, high), 1, <<>>, <<>>,
                            min_duration, max_duration)

_generate_from_subtitle_segments(sdf, min_duration, max_duration) ==
  LET segments == segment_by_silence(sdf, 2 * Tick, min_duration)
      keep(sg) == Within(sg.duration, min_duration, max_duration)
      kept == SelectSeq(segments, keep)
  IN  [i \in DOMAIN kept |->
         Candidate(kept[i].start, kept[i].end, "subtitle segment",
                   [segment_id |-> kept[i].segment_id,
                    subtitle_count |-> kept[i].subtitle_count,
                    text_preview |-> kept[i].text])]

_generate_from_topic_changes(sdf, min_duration, max_duration) ==
  LET topic_changes == detect_topic_changes(sdf, DefaultTopicKeywords)
      start(i) == topic_changes[i].time
      end(i) == IF i < Len(topic_changes) THEN topic_changes[i + 1].time
                ELSE start(i) + 60 * Tick
      keep(i) == Within(end(i) - start(i), min_duration, max_duration)
      kept == SelectSeq([i \in DOMAIN topic_changes |-> i], keep)
  IN  [j \in DOMAIN kept |->
         Candidate(start(kept[j]), end(kept[j]),
                   "topic shift: " \o topic_changes[kept[j]].keyword,
                   [keyword |-> topic_changes[kept[j]].keyword,
                    text |-> topic_changes[kept[j]].text])]

-----------------------------------------------------------------------------
(* ClipGenerator: merge, score, order *)

\* list.sort(key=...) is stable: element i goes behind the elements of a
\* smaller key and the earlier elements of the same key
sort_by_start(cs) ==
  LET pos(i) == Cardinality({j \in DOMAIN cs : cs[j].start < cs[i].start})
                + Cardinality({j \in 1..i : cs[j].start = cs[i].start})
  IN  [p \in DOMAIN cs |-> cs[CHOOSE i \in DOMAIN cs : pos(i) = p]]

\* a descending sort that reverses the ties (an ascending sort, reversed)
sort_by_score_desc_reversed_ties(cs) ==
  LET pos(i) == Cardinality({j \in DOMAIN cs : cs[j].score > cs[i].score})
                + Cardinality({j \in i..Len(cs) : cs[j].score = cs[i].score})
  IN  [p \in DOMAIN cs |-> cs[CHOOSE i \in DOMAIN cs : pos(i) = p]]

\* list.sort(key=score, reverse=True): descending, ties in their first order
sort_by_score_desc(cs) ==
  LET pos(i) == Cardinality({j \in DOMAIN cs : cs[j].score > cs[i].score})
                + Cardinality({j \in 1..i : cs[j].score = cs[i].score})
  IN  [p \in DOMAIN cs |-> cs[CHOOSE i \in DOMAIN cs : pos(i) = p]]

\* the ratio taken against the duration of the first candidate
_calculate_overlap_of_first(c1, c2) ==
  LET overlap_start == Max2(c1.start, c2.start)
      overlap_end == Min2(c1.end, c2.end)
  IN  IF overlap_end <= overlap_start THEN <<0, 1>>
      ELSE <<overlap_end - overlap_start, c1.end - c1.start>>

\* the ratio with the early return taken only for overlap_end < overlap_start
_calculate_overlap_late_return(c1, c2) ==
  LET overlap_start == Max2(c1.start, c2.start)
      overlap_end == Min2(c1.end, c2.end)
  IN  IF overlap_end < overlap_start THEN <<0, 1>>
      ELSE <<overlap_end - overlap_start, Min2(c1.end - c1.start, c2.end - c2.start)>>

\* overlap > 0.5 for the ratio overlap_duration / min_duration the function
\* returns (0.0 when the intervals do not overlap): numerator and denominator
_calculate_overlap(c1, c2) ==
  LET overlap_start == Max2(c1.start, c2.start)
      overlap_end == Min2(c1.end, c2.end)
  IN  IF overlap_end <= overlap_start THEN <<0, 1>>
      ELSE <<overlap_end - overlap_start, Min2(c1.end - c1.start, c2.end - c2.start)>>

\* the test as it would be with >= 0.5
AtLeastHalf(ratio) == 2 * ratio[1] >= ratio[2]

\* the test as it would be with > 0.75
AboveThreeQuarters(ratio) == 4 * ratio[1] > 3 * ratio[2]

\* a ratio <<num, den>>, den > 0, is above one half
MoreThanHalf(ratio) == 2 * ratio[1] > ratio[2]

\* the score without its final min(score, 1.0)
_calculate_score_unclamped(candidate) ==
  LET bonus(d) ==
        (IF "peak_count" \in DOMAIN d THEN Min2(d.peak_count, 30) ELSE 0)
        + (IF "total_count" \in DOMAIN d THEN Min2(d.total_count * 2, 20) ELSE 0)
      all == candidate.all_details
  IN  Min2(Len(candidate.reasons) * 30, 60) + SumSeq([i \in DOMAIN all |-> bonus(all[i])])

\* the score in hundredths
_calculate_score(candidate) ==
  LET num_reasons == Len(candidate.reasons)
      bonus(d) ==
        (IF "peak_count" \in DOMAIN d THEN Min2(d.peak_count, 30) ELSE 0)
        + (IF "total_count" \in DOMAIN d THEN Min2(d.total_count * 2, 20) ELSE 0)
      all == candidate.all_details
  IN  Min2(Min2(num_reasons * 30, 60) + SumSeq([i \in DOMAIN all |-> bonus(all[i])]), 100)

\* candidate.copy() with an empty reasons list beside its details
Accumulator_without_reason(c) ==
  [start |-> c.start, end |-> c.end, reason |-> c.reason, score |-> c.score,
   details |-> c.details, reasons |-> <<>>, all_details |-> <<c.details>>]

\* candidate.copy() with its reasons and all_details lists
Accumulator(c) ==
  [start |-> c.start, end |-> c.end, reason |-> c.reason, score |-> c.score,
   details |-> c.details, reasons |-> <<c.reason>>, all_details |-> <<c.details>>]

Scored(current) == [current EXCEPT !.score = _calculate_score(current)]

\* the sweep with an accumulator that keeps the end of its first candidate
RECURSIVE merge_loop_first_end(_, _, _, _)
merge_loop_first_end(candidates, i, current, merged) ==
  IF i > Len(candidates) THEN Append(merged, Scored(current))
  ELSE LET candidate == candidates[i]
       IN  IF MoreThanHalf(_calculate_overlap(current, candidate))
           THEN merge_loop_first_end(candidates, i + 1,
                           [current EXCEPT
                              !.start = Min2(current.start, candidate.start),
                              !.reasons = Append(current.reasons, candidate.reason),
                              !.all_details = Append(current.all_details, candidate.details)],
                           merged)
           ELSE merge_loop_first_end(candidates, i + 1, Accumulator(candidate),
                           Append(merged, Scored(current)))

\* the sweep of _merge_and_score_candidates from candidate i on
RECURSIVE merge_loop(_, _, _, _)
merge_loop(candidates, i, current, merged) ==
  IF i > Len(candidates) THEN Append(merged, Scored(current))
  ELSE LET candidate == candidates[i]
       IN  IF MoreThanHalf(_calculate_overlap(current, candidate))
           THEN merge_loop(candidates, i + 1,
                           [current EXCEPT
                              !.start = Min2(current.start, candidate.start),
                              !.end = Max2(current.end, candidate.end),
                              !.reasons = Append(current.reasons, candidate.reason),
                              !.all_details = Append(current.all_details, candidate.details)],
                           merged)
           ELSE merge_loop(candidates, i + 1, Accumulator(candidate),
                           Append(merged, Scored(current)))

\* the list merged before the length check
merge_sweep(sorted) ==
  IF sorted = <<>> THEN <<>>
  ELSE merge_loop(sorted, 2, Accumulator(sorted[1]), <<>>)

\* the length check applied to the minimum alone
valid_merged_min_only(merged, min_duration, max_duration) ==
  LET ok(c) == min_duration <= c.end - c.start
      kept == SelectSeq(merged, ok)
  IN  [i \in DOMAIN kept |-> [kept[i] EXCEPT !.reason = Range(kept[i].reasons)]]

\* the length check; the joined reason string is kept as the set it is built from
valid_merged(merged, min_duration, max_duration) ==
  LET ok(c) == Within(c.end - c.start, min_duration, max_duration)
      kept == SelectSeq(merged, ok)
  IN  [i \in DOMAIN kept |-> [kept[i] EXCEPT !.reason = Range(kept[i].reasons)]]

\* the outcome of a call: the value returned, or the exception raised
Return(v) == [raised |-> "", value |-> v]
Raise(e) == [raised |-> e, value |-> <<>>]

\* without "if not candidates: return []" the read of candidates[0] fails
_merge_and_score_candidates_unguarded(candidates, min_duration, max_duration) ==
  IF candidates = <<>> THEN Raise("IndexError")
  ELSE Return(valid_merged(merge_sweep(sort_by_start(candidates)),
                           min_duration, max_duration))

_merge_and_score_candidates(candidates, min_duration, max_duration) ==
  IF candidates = <<>> THEN Return(<<>>)
  ELSE Return(valid_merged(merge_sweep(sort_by_start(candidates)),
                           min_duration, max_duration))

\* candidates.extend(...) of the producers whose analyzer is not None
collect_candidates(ca, df, sa, sdf, min_duration, max_duration, keywords) ==
  (IF ca THEN _generate_from_comment_peaks(df, min_duration, max_duration) ELSE <<>>)
  \o (IF ca THEN _generate_from_keywords(df, keywords, min_duration, max_duration) ELSE <<>>)
  \o (IF sa THEN _generate_from_subtitle_segments(sdf, min_duration, max_duration) ELSE <<>>)
  \o (IF sa THEN _generate_from_topic_changes(sdf, min_duration, max_duration) ELSE <<>>)

generate_candidates(ca, df, sa, sdf, min_duration, max_duration, keywords) ==
  LET merged_candidates ==
        _merge_and_score_candidates(
          collect_candidates(ca, df, sa, sdf, min_duration, max_duration, keywords),
          min_duration, max_duration)
  IN  IF merged_candidates.raised # "" THEN merged_candidates
      ELSE Return(sort_by_score_desc(merged_candidates.value))

-----------------------------------------------------------------------------
(* Inputs *)

Msg(t, m) == [timestamp_sec |-> t, message |-> m]

Row(t) == Msg(t, <<"x">>)

\* a row of DataParser.parse_subtitle_to_dataframe: end = start + duration
Sub(start, duration, text) ==
  [start |-> start, duration |-> duration, end |-> start + duration, text |-> text]

IsSortedBy(s, key(_)) == \A i, j \in DOMAIN s : i < j => key(s[i]) <= key(s[j])

TsKey(r) == r.timestamp_sec

\* chat tables as DataParser.parse_chat_to_dataframe delivers them: sorted by timestamp
SmallChats ==
  {s \in UNION {[1..n -> {Row(t) : t \in 0..MaxTime}] : n \in 0..MaxComments} :
     IsSortedBy(s, TsKey)}

\* the self-test table of comment_analyzer.py: seconds 10,15,20,25,100,105,110
ScenarioChat ==
  [i \in 1..7 |-> Row(<<10, 15, 20, 25, 100, 105, 110>>[i] * Tick)]

\* four comments in [0,30) and three in [90,120)
ScenarioPeakChat ==
  [i \in 1..7 |-> Row(<<0, 5, 10, 15, 95, 100, 105>>[i] * Tick)]

ChatInputs == SmallChats \cup {ScenarioChat, ScenarioPeakChat}

BinSizes == (1..MaxBinSize) \cup {10, 30}

\* chat tables for the whole pipeline: a comment half a second past 0:10,
\* comments at 0:35 and at 1:20, with and without a reaction keyword
PipeRows ==
  {Msg(t, m) : t \in {10 * Tick + 1, 35 * Tick, 80 * Tick}, m \in {<<"w", "W">>, <<"o", "k">>}}

PipeChats ==
  {s \in UNION {[1..n -> PipeRows] : n \in 0..MaxComments} : IsSortedBy(s, TsKey)}

\* one early comment, then thirty reactions within one bin
BurstChat ==
  <<Msg(10 * Tick + 1, <<"o", "k">>)>> \o [i \in 1..30 |-> Msg(35 * Tick, <<"kusa", "w">>)]

\* a comment in the first bin of the video and one in the bin 70..80
EarlyChat == <<Msg(1, <<"o", "k">>), Msg(80 * Tick, <<"o", "k">>)>>

\* a keyword in the bin 65..75, the peak in the bin 95..105
FixedChat ==
  <<Msg(65 * Tick + 1, <<"w">>), Msg(95 * Tick + 1, <<"o", "k">>),
    Msg(95 * Tick + 1, <<"o", "k">>)>>

\* subtitle tables as DataParser.parse_subtitle_to_dataframe delivers them:
\* sorted by start, overlaps left as they are
SubRows ==
  {Sub(st * Tick, d * Tick, tx) : st \in {0, 10, 70}, d \in {50, 60},
                                  tx \in {<<"a">>, <<"tsugi", "ha", "b">>}}

StartKey(r) == r.start

PipeSubs ==
  {s \in UNION {[1..n -> SubRows] : n \in 0..MaxSubs} : IsSortedBy(s, StartKey)}

FixedSubs ==
  <<Sub(0, 60 * Tick, <<"a">>), Sub(10 * Tick, 50 * Tick, <<"tsugi", "ha", "b">>),
    Sub(70 * Tick, 60 * Tick, <<"a">>)>>

\* (min_duration, max_duration) in seconds; 30 and 180 are the defaults, and
\* the caller is free to pass a minimum above the maximum
DurationBounds == {<<30, 60>>, <<30, 180>>, <<50, 180>>, <<60, 30>>}

\* percentiles whose quantile q / 100 is a binary fraction, so that the
\* floating-point interpolation of numpy is exact
Percentiles == {0, 25, 50, 75, 100}

MinGaps == {0, 1, 30}

-----------------------------------------------------------------------------
(* Actions *)

InitBin ==
  /\ comment_analyzer = TRUE
  /\ subtitle_analyzer = FALSE
  /\ chat_df \in ChatInputs
  /\ chat_bin = <<>>
  /\ subtitle_df = <<>>
  /\ raw_sorted = <<>>
  /\ merged_all = <<>>
  /\ binned_df = <<>>
  /\ op = "init"
  /\ args = <<>>
  /\ ret = <<>>
  /\ raised = ""
  /\ parsed_from = <<>>
  /\ caller_tables = <<>>

BinComments ==
  \E bs \in BinSizes :
    /\ chat_bin' = bin_column(chat_df, bs)
    /\ binned_df' = bin_comments_by_time(chat_df, bs)
    /\ op' = "bin_comments_by_time"
    /\ args' = <<bs>>
    /\ ret' = bin_comments_by_time(chat_df, bs)
    /\ raised' = ""
    /\ UNCHANGED <<caller_tables, parsed_from, comment_analyzer, subtitle_analyzer, chat_df, subtitle_df,
                   raw_sorted, merged_all>>

\* analyzer.find_peaks(binned_df, ...) on the table bin_comments_by_time returned
FindPeaks ==
  \E p \in Percentiles, g \in MinGaps :
    /\ op # "init"
    /\ op' = "find_peaks"
    /\ args' = <<p, g>>
    /\ ret' = find_peaks(binned_df, p, g)
    /\ raised' = ""
    /\ UNCHANGED <<caller_tables, parsed_from, comment_analyzer, subtitle_analyzer, chat_df, chat_bin,
                   subtitle_df, binned_df, raw_sorted, merged_all>>

NextBin == BinComments \/ FindPeaks

\* ClipGenerator(comment_analyzer, subtitle_analyzer) over the parsed tables
Init ==
  /\ \/ /\ comment_analyzer = TRUE
        /\ chat_df \in PipeChats \cup {BurstChat, EarlyChat}
        /\ \/ subtitle_analyzer = FALSE /\ subtitle_df = <<>>
           \/ subtitle_analyzer = TRUE /\ subtitle_df \in {<<>>, FixedSubs}
     \/ /\ subtitle_analyzer = TRUE
        /\ subtitle_df \in PipeSubs
        /\ \/ comment_analyzer = FALSE /\ chat_df = <<>>
           \/ comment_analyzer = TRUE /\ chat_df \in {<<>>, FixedChat}
     \/ /\ comment_analyzer = FALSE /\ chat_df = <<>>
        /\ subtitle_analyzer = FALSE /\ subtitle_df = <<>>
  /\ chat_bin = <<>>
  /\ binned_df = <<>>
  /\ raw_sorted = <<>>
  /\ merged_all = <<>>
  /\ op = "init"
  /\ args = <<>>
  /\ ret = <<>>
  /\ raised = ""
  /\ parsed_from = <<>>
  /\ caller_tables = <<>>

GenerateCandidates ==
  \E b \in DurationBounds :
    LET min_duration == b[1] * Tick
        max_duration == b[2] * Tick
        raw == collect_candidates(comment_analyzer, chat_df, subtitle_analyzer,
                                  subtitle_df, min_duration, max_duration,
                                  DefaultReactionKeywords)
    IN  /\ chat_bin' = IF comment_analyzer /\ chat_df # <<>>
                       THEN bin_column(chat_df, 10) ELSE chat_bin
        /\ raw_sorted' = sort_by_start(raw)
        /\ merged_all' = merge_sweep(sort_by_start(raw))
        /\ op' = "generate_candidates"
        /\ args' = <<min_duration, max_duration>>
        /\ ret' = generate_candidates(comment_analyzer, chat_df, subtitle_analyzer,
                                      subtitle_df, min_duration, max_duration,
                                      DefaultReactionKeywords).value
        /\ raised' = generate_candidates(comment_analyzer, chat_df, subtitle_analyzer,
                                         subtitle_df, min_duration, max_duration,
                                         DefaultReactionKeywords).raised
        /\ UNCHANGED <<caller_tables, parsed_from, comment_analyzer, subtitle_analyzer, chat_df, subtitle_df,
                       binned_df>>

Next == GenerateCandidates

Spec == Init /\ [][Next]_vars

SpecBin == InitBin /\ [][NextBin]_vars

-----------------------------------------------------------------------------
(* DataParser.  A renderer is a dict with the optional keys timestampUsec    *)
(* and text; a timestamp is a string, of digits or not; a subtitle entry is  *)
(* a dict with the optional keys start, duration and text.  timestamp_sec is *)
(* kept as the pair <<timestamp_ms, 1000>> of the float division.            *)

MaxEvents == 2
MaxActions == 2
MaxEntries == 3

\* a string of digits, and a string int() rejects
Digits(n) == [digits |-> TRUE, n |-> n]
NotDigits == [digits |-> FALSE, n |-> 0]

\* int(s)
int(s) == IF s.digits THEN Return(s.n) ELSE Raise("ValueError")

\* dict.get(key, default)
get(dict, key, default) == IF key \in DOMAIN dict THEN dict[key] ELSE default

\* one renderer of parse_chat_to_dataframe: the row it appends, or the exception
chat_row(renderer) ==
  LET timestamp_usec == int(get(renderer, "timestampUsec", Digits(0)))
      timestamp_ms == timestamp_usec.value \div 1000
  IN  IF timestamp_usec.raised # "" THEN timestamp_usec
      ELSE Return([timestamp_ms |-> timestamp_ms,
                   timestamp_sec |-> <<timestamp_ms, 1000>>,
                   message |-> get(renderer, "text", <<>>)])

\* the actions of one event from action i on; an exception leaves the loop
\* over the actions and keeps the rows appended so far
RECURSIVE parse_actions(_, _, _)
parse_actions(actions, i, parsed_data) ==
  IF i > Len(actions) THEN parsed_data
  ELSE IF chat_row(actions[i]).raised # "" THEN parsed_data
       ELSE parse_actions(actions, i + 1, Append(parsed_data, chat_row(actions[i]).value))

RECURSIVE parse_events(_, _, _)
parse_events(chat_data, e, parsed_data) ==
  IF e > Len(chat_data) THEN parsed_data
  ELSE parse_events(chat_data, e + 1, parse_actions(chat_data[e], 1, parsed_data))

\* DataFrame.sort_values(column) on a short table: rows of an equal key keep
\* their order
sort_values(rows, key(_)) ==
  LET pos(i) == Cardinality({j \in DOMAIN rows : key(rows[j]) < key(rows[i])})
                + Cardinality({j \in 1..i : key(rows[j]) = key(rows[i])})
  IN  [p \in DOMAIN rows |-> rows[CHOOSE i \in DOMAIN rows : pos(i) = p]]

MsKey(r) == r.timestamp_ms

parse_chat_to_dataframe(chat_data) ==
  Return(sort_values(parse_events(chat_data, 1, <<>>), MsKey))

\* sub['start'], sub['duration'], sub['text'] of one entry
subtitle_row(sub) ==
  IF {"start", "duration", "text"} \subseteq DOMAIN sub
  THEN Return([start |-> sub.start, duration |-> sub.duration,
               end |-> sub.start + sub.duration, text |-> sub.text])
  ELSE Raise("KeyError")

\* the table without its sort_values('start')
parse_subtitle_to_dataframe_unsorted(subtitles) ==
  IF \E i \in DOMAIN subtitles : subtitle_row(subtitles[i]).raised # ""
  THEN Raise("KeyError")
  ELSE Return([i \in DOMAIN subtitles |-> subtitle_row(subtitles[i]).value])

parse_subtitle_to_dataframe(subtitles) ==
  IF \E i \in DOMAIN subtitles : subtitle_row(subtitles[i]).raised # ""
  THEN Raise("KeyError")
  ELSE Return(sort_values([i \in DOMAIN subtitles |-> subtitle_row(subtitles[i]).value],
                          StartKey))

\* renderers with and without a timestamp; half a second and ten seconds
Renderers ==
  {[text |-> <<"a">>]}
  \cup {[timestampUsec |-> u, text |-> <<"a">>] :
          u \in {NotDigits, Digits(500999), Digits(10000000)}}

ChatEvents == UNION {[1..n -> Renderers] : n \in 1..MaxActions}

ChatBatches == UNION {[1..n -> ChatEvents] : n \in 0..MaxEvents}

SubtitleEntries ==
  {[start |-> 0, text |-> <<"a">>], [start |-> 0, duration |-> 2 * Tick],
   [duration |-> 2 * Tick, text |-> <<"a">>]}
  \cup {[start |-> s * Tick, duration |-> 2 * Tick, text |-> <<"a">>] : s \in {0, 5, 9}}

SubtitleBatches == UNION {[1..n -> SubtitleEntries] : n \in 0..MaxEntries}

\* the batch read from the chat file or from the subtitle file is in args
InitParse ==
  /\ comment_analyzer = FALSE
  /\ subtitle_analyzer = FALSE
  /\ chat_df = <<>>
  /\ chat_bin = <<>>
  /\ subtitle_df = <<>>
  /\ raw_sorted = <<>>
  /\ merged_all = <<>>
  /\ binned_df = <<>>
  /\ \/ op = "chat_data" /\ args \in ChatBatches
     \/ op = "subtitle_data" /\ args \in SubtitleBatches
  /\ ret = <<>>
  /\ raised = ""
  /\ parsed_from = <<>>
  /\ caller_tables = <<>>

ParseChat ==
  /\ op \in {"chat_data", "parse_chat_to_dataframe"}
  /\ op' = "parse_chat_to_dataframe"
  /\ ret' = parse_chat_to_dataframe(args).value
  /\ raised' = parse_chat_to_dataframe(args).raised
  /\ chat_df' = parse_chat_to_dataframe(args).value
  /\ UNCHANGED <<caller_tables, parsed_from, comment_analyzer, subtitle_analyzer, chat_bin, subtitle_df,
                 binned_df, raw_sorted, merged_all, args>>

ParseSubtitle ==
  /\ op \in {"subtitle_data", "parse_subtitle_to_dataframe"}
  /\ op' = "parse_subtitle_to_dataframe"
  /\ ret' = parse_subtitle_to_dataframe(args).value
  /\ raised' = parse_subtitle_to_dataframe(args).raised
  /\ subtitle_df' = parse_subtitle_to_dataframe(args).value
  /\ parsed_from' = args
  /\ UNCHANGED <<caller_tables, comment_analyzer, subtitle_analyzer, chat_df, chat_bin,
                 binned_df, raw_sorted, merged_all, args>>

NextParse == ParseChat \/ ParseSubtitle

SpecParse == InitParse /\ [][NextParse]_vars

-----------------------------------------------------------------------------
(* SubtitleAnalyzer on its own.  The constructor copies the table it is     *)
(* handed: one built by the caller, as in the self-test of the module, or    *)
(* the one DataParser parsed from the subtitle file.  Times are in ticks.    *)

MaxStart == 3

\* rows of one or two ticks starting within the first ticks, in any order
TimingRows == {Sub(s, d, <<"a">>) : s \in 0..MaxStart, d \in {1, 2}}

TimingTables == UNION {[1..n -> TimingRows] : n \in 0..MaxSubs}

\* texts without a topic keyword, with one, and with two of them
TopicTexts ==
  {<<"a">>, <<"ma", "zu">>, <<"tsugi", "ha", "b">>, <<"sa", "te", "tsugi", "ha">>}

\* one row every ten seconds
TopicTables ==
  UNION {{[i \in 1..n |-> Sub(10 * i * Tick, 5 * Tick, texts[i])] :
            texts \in [1..n -> TopicTexts]} : n \in 1..MaxSubs}

\* the entries of a subtitle file, in any order
TimingEntries ==
  {[start |-> s, duration |-> d, text |-> <<"a">>] : s \in 0..MaxStart, d \in {1, 2}}

TimingBatches == UNION {[1..n -> TimingEntries] : n \in 0..MaxSubs}

\* min_gap_seconds and min_segment_duration, in ticks
SilenceGaps == {1, 2}
SegmentDurations == {0, 2, 3}

InitSub ==
  /\ comment_analyzer = FALSE
  /\ chat_df = <<>>
  /\ chat_bin = <<>>
  /\ \/ /\ subtitle_analyzer = TRUE
        /\ subtitle_df \in TimingTables \cup TopicTables
        /\ op = "init"
        /\ args = <<>>
     \/ /\ subtitle_analyzer = FALSE
        /\ subtitle_df = <<>>
        /\ op = "subtitle_data"
        /\ args \in TimingBatches
  /\ raw_sorted = <<>>
  /\ merged_all = <<>>
  /\ binned_df = <<>>
  /\ ret = <<>>
  /\ raised = ""
  /\ parsed_from = <<>>
  /\ caller_tables = <<>>

\* SubtitleAnalyzer(subtitle_df) on the table load_and_parse_subtitle returned
NewSubtitleAnalyzer ==
  /\ op = "parse_subtitle_to_dataframe"
  /\ raised = ""
  /\ subtitle_df # <<>>
  /\ subtitle_analyzer' = TRUE
  /\ op' = "SubtitleAnalyzer"
  /\ args' = <<>>
  /\ ret' = <<>>
  /\ UNCHANGED <<caller_tables, parsed_from, comment_analyzer, chat_df, chat_bin, subtitle_df,
                 binned_df, raw_sorted, merged_all, raised>>

DetectSilenceGaps ==
  \E min_gap \in SilenceGaps :
    /\ subtitle_analyzer
    /\ op' = "detect_silence_gaps"
    /\ args' = <<min_gap>>
    /\ ret' = detect_silence_gaps(subtitle_df, min_gap)
    /\ raised' = ""
    /\ UNCHANGED <<caller_tables, parsed_from, comment_analyzer, subtitle_analyzer, chat_df, chat_bin,
                   subtitle_df, binned_df, raw_sorted, merged_all>>

SegmentBySilence ==
  \E min_gap \in SilenceGaps, min_segment_duration \in SegmentDurations :
    /\ subtitle_analyzer
    /\ op' = "segment_by_silence"
    /\ args' = <<min_gap, min_segment_duration>>
    /\ ret' = segment_by_silence(subtitle_df, min_gap, min_segment_duration)
    /\ raised' = ""
    /\ UNCHANGED <<caller_tables, parsed_from, comment_analyzer, subtitle_analyzer, chat_df, chat_bin,
                   subtitle_df, binned_df, raw_sorted, merged_all>>

DetectTopicChanges ==
  /\ subtitle_analyzer
  /\ op' = "detect_topic_changes"
  /\ args' = <<>>
  /\ ret' = detect_topic_changes(subtitle_df, DefaultTopicKeywords)
  /\ raised' = ""
  /\ UNCHANGED <<caller_tables, parsed_from, comment_analyzer, subtitle_analyzer, chat_df, chat_bin,
                 subtitle_df, binned_df, raw_sorted, merged_all>>

NextSub ==
  \/ ParseSubtitle
  \/ NewSubtitleAnalyzer
  \/ DetectSilenceGaps
  \/ SegmentBySilence
  \/ DetectTopicChanges

SpecSub == InitSub /\ [][NextSub]_vars

-----------------------------------------------------------------------------
(* ClipGenerator._calculate_overlap on its own: the two candidates are drawn *)
(* in the initial state, the call is applied to them.                        *)

\* candidates of every start and end up to MaxTime, the empty ones included
Intervals ==
  {Candidate(s, e, "x", [total_count |-> 1]) : s \in 0..MaxTime, e \in 0..MaxTime}

InitOverlap ==
  /\ comment_analyzer = FALSE
  /\ subtitle_analyzer = FALSE
  /\ chat_df = <<>>
  /\ chat_bin = <<>>
  /\ subtitle_df = <<>>
  /\ raw_sorted = <<>>
  /\ merged_all = <<>>
  /\ binned_df = <<>>
  /\ op = "init"
  /\ args \in Intervals \X Intervals
  /\ ret = <<>>
  /\ raised = ""
  /\ parsed_from = <<>>
  /\ caller_tables = <<>>

\* overlap_duration / min_duration raises ZeroDivisionError for min_duration 0
CalculateOverlap ==
  /\ op' = "_calculate_overlap"
  /\ ret' = IF _calculate_overlap(args[1], args[2])[2] = 0 THEN <<>>
            ELSE _calculate_overlap(args[1], args[2])
  /\ raised' = IF _calculate_overlap(args[1], args[2])[2] = 0 THEN "ZeroDivisionError"
               ELSE ""
  /\ UNCHANGED <<caller_tables, parsed_from, comment_analyzer, subtitle_analyzer, chat_df, chat_bin,
                 subtitle_df, binned_df, raw_sorted, merged_all, args>>

NextOverlap == CalculateOverlap

SpecOverlap == InitOverlap /\ [][NextOverlap]_vars

-----------------------------------------------------------------------------
(* CommentAnalyzer keyword counting on its own *)

\* messages matching two keywords, one keyword in the other case, and none
KeywordMessages == {<<"w", "kusa">>, <<"W">>, <<"o", "k">>}

KeywordChats ==
  {s \in UNION {[1..n -> {Msg(t, m) : t \in 0..MaxTime, m \in KeywordMessages}] :
                  n \in 0..MaxComments} : IsSortedBy(s, TsKey)}

InitKeywords ==
  /\ comment_analyzer = TRUE
  /\ subtitle_analyzer = FALSE
  /\ chat_df \in KeywordChats
  /\ chat_bin = <<>>
  /\ subtitle_df = <<>>
  /\ raw_sorted = <<>>
  /\ merged_all = <<>>
  /\ binned_df = <<>>
  /\ op = "init"
  /\ args = <<>>
  /\ ret = <<>>
  /\ raised = ""
  /\ parsed_from = <<>>
  /\ caller_tables = <<>>

CountKeywords ==
  \E case_sensitive \in BOOLEAN :
    /\ op' = "count_keywords"
    /\ args' = <<case_sensitive>>
    /\ ret' = count_keywords(chat_df, DefaultReactionKeywords, case_sensitive)
    /\ raised' = ""
    /\ UNCHANGED <<caller_tables, parsed_from, comment_analyzer, subtitle_analyzer, chat_df, chat_bin,
                   subtitle_df, binned_df, raw_sorted, merged_all>>

GetKeywordFrequencyOverTime ==
  \E bs \in BinSizes :
    /\ op' = "get_keyword_frequency_over_time"
    /\ args' = <<bs>>
    /\ ret' = get_keyword_frequency_over_time(chat_df, DefaultReactionKeywords, bs)
    /\ raised' = ""
    /\ UNCHANGED <<caller_tables, parsed_from, comment_analyzer, subtitle_analyzer, chat_df, chat_bin,
                   subtitle_df, binned_df, raw_sorted, merged_all>>

NextKeywords == CountKeywords \/ GetKeywordFrequencyOverTime

SpecKeywords == InitKeywords /\ [][NextKeywords]_vars

-----------------------------------------------------------------------------
(* One request after another on the same analyzers: the caller builds the   *)
(* two analyzers, each over a copy of its table, and then calls the stages  *)
(* in any order and any number of times.                                    *)

CallChats == {FixedChat, EarlyChat}

CallSubs == {FixedSubs}

InitCalls ==
  /\ caller_tables \in {[chat_df |-> c, subtitle_df |-> t] :
                          c \in CallChats, t \in CallSubs}
  /\ comment_analyzer = FALSE
  /\ subtitle_analyzer = FALSE
  /\ chat_df = <<>>
  /\ chat_bin = <<>>
  /\ subtitle_df = <<>>
  /\ raw_sorted = <<>>
  /\ merged_all = <<>>
  /\ binned_df = <<>>
  /\ op = "init"
  /\ args = <<>>
  /\ ret = <<>>
  /\ raised = ""
  /\ parsed_from = <<>>

\* CommentAnalyzer(chat_df), SubtitleAnalyzer(subtitle_df) and the ClipGenerator
\* over them: each analyzer keeps chat_df.copy() / subtitle_df.copy()
NewAnalyzers ==
  /\ op = "init"
  /\ comment_analyzer' = TRUE
  /\ subtitle_analyzer' = TRUE
  /\ chat_df' = caller_tables.chat_df
  /\ subtitle_df' = caller_tables.subtitle_df
  /\ op' = "ClipGenerator"
  /\ UNCHANGED <<caller_tables, parsed_from, chat_bin, binned_df, raw_sorted,
                 merged_all, args, ret, raised>>

Built == comment_analyzer /\ subtitle_analyzer

NextCalls ==
  \/ NewAnalyzers
  \/ Built /\ BinComments
  \/ Built /\ FindPeaks
  \/ Built /\ CountKeywords
  \/ Built /\ GetKeywordFrequencyOverTime
  \/ Built /\ SegmentBySilence
  \/ Built /\ GenerateCandidates

SpecCalls == InitCalls /\ [][NextCalls]_vars

-----------------------------------------------------------------------------
(* _merge_and_score_candidates on any list of raw candidates, in any order: *)
(* the k-th candidate of the list carries the details {'peak_count': k}, so *)
(* that the entries of an accumulator tell which candidates it absorbed.    *)

\* the times, in ticks, at which a raw candidate starts or ends
MergePoints == {0, 1, 2, 3, 4, 6}

RawIntervals == {iv \in MergePoints \X MergePoints : iv[1] <= iv[2]}

RawReasons == <<"comment surge", "keyword reaction", "subtitle segment", "topic change">>

RawLists ==
  UNION {[1..n -> RawIntervals] : n \in 0..MaxComments}

RawCandidates(ivs) ==
  [k \in DOMAIN ivs |->
     Candidate(ivs[k][1], ivs[k][2], RawReasons[1 + (k % Len(RawReasons))],
               [peak_count |-> k])]

\* (min_duration, max_duration) in ticks
MergeBounds == {<<2, 3>>, <<0, 6>>}

InitMerge ==
  /\ comment_analyzer = FALSE
  /\ subtitle_analyzer = FALSE
  /\ chat_df = <<>>
  /\ chat_bin = <<>>
  /\ subtitle_df = <<>>
  /\ raw_sorted = <<>>
  /\ merged_all = <<>>
  /\ binned_df = <<>>
  /\ op = "candidates"
  /\ \E ivs \in RawLists : args = <<RawCandidates(ivs)>>
  /\ ret = <<>>
  /\ raised = ""
  /\ parsed_from = <<>>
  /\ caller_tables = <<>>

MergeAndScoreCandidates ==
  \E b \in MergeBounds :
    /\ op = "candidates"
    /\ raw_sorted' = sort_by_start(args[1])
    /\ merged_all' = merge_sweep(sort_by_start(args[1]))
    /\ op' = "_merge_and_score_candidates"
    /\ args' = <<args[1], b[1], b[2]>>
    /\ ret' = _merge_and_score_candidates(args[1], b[1], b[2]).value
    /\ raised' = _merge_and_score_candidates(args[1], b[1], b[2]).raised
    /\ UNCHANGED <<caller_tables, parsed_from, comment_analyzer, subtitle_analyzer,
                   chat_df, chat_bin, subtitle_df, binned_df>>

NextMerge == MergeAndScoreCandidates

SpecMerge == InitMerge /\ [][NextMerge]_vars

-----------------------------------------------------------------------------
(* Properties *)

BinTriples(df) == [i \in DOMAIN df |-> <<df[i].bin_start, df[i].bin_end, df[i].count>>]

Binned == op = "bin_comments_by_time"

\* C1: for a non-empty comment table the counts of the returned bins sum to
\* the number of records (a table whose records all share one whole-second
\* timestamp included)
C1_CountsSumToRecords ==
  (Binned /\ chat_df # <<>>) => SumSeq(Counts(ret)) = Len(chat_df)

\* C2: a record counted in bin k lies in [edge k, edge k+1), the final bin
\* alone being closed on the right
C2_LeftClosedBins ==
  Binned =>
    \A i \in DOMAIN chat_bin :
      LET bins == bin_edges(chat_df, args[1])
          k == chat_bin[i]
          t == chat_df[i].timestamp_sec
      IN  k # NaN =>
            /\ bins[k + 1] <= t
            /\ \/ t < bins[k + 2]
               \/ (k + 2 = Len(bins) /\ t = bins[k + 2])

BinnedScenario == Binned /\ chat_df = ScenarioChat /\ args = <<30>>

PeaksOfScenario ==
  /\ op = "find_peaks"
  /\ args = <<75, 30>>
  /\ BinTriples(binned_df) = << <<0, 30 * Tick, 4>>, <<90 * Tick, 120 * Tick, 3>> >>

\* C4 as stated: both bins reach the 75th percentile and, 60 > 30 apart, give
\* two peaks
C4_TwoPeaks == PeaksOfScenario => Len(ret) = 2

\* C4 amended: the interpolated 75th percentile of {3,4} is 3.75, so only the
\* bin of count 4 qualifies and find_peaks returns that one peak
C4_OnePeak ==
  PeaksOfScenario =>
    /\ percentile100(Counts(binned_df), 75) = 375
    /\ Len(ret) = 1
    /\ ret[1].time = 0 /\ ret[1].time_end = 30 * Tick /\ ret[1].count = 4

C4_Witness == PeaksOfScenario /\ ret # <<>>

Generated == op = "generate_candidates"

Duration(c) == c.end - c.start

\* the accumulators of merged_all as runs lo..hi of raw_sorted: an accumulator
\* holds one reason per candidate it absorbed
RunLens == [m \in DOMAIN merged_all |-> Len(merged_all[m].reasons)]
RunLo(m) == 1 + SumSeq(SubSeq(RunLens, 1, m - 1))
RunHi(m) == RunLo(m) + RunLens[m] - 1

\* the interval an accumulator has after absorbing raw_sorted[lo..hi]
Hull(lo, hi) ==
  [start |-> SetMin({raw_sorted[k].start : k \in lo..hi}),
   end |-> SetMax({raw_sorted[k].end : k \in lo..hi})]

OverlapDuration(a, b) == Max2(0, Min2(a.end, b.end) - Max2(a.start, b.start))

\* overlapDuration / min(duration a, duration b) compared with one half
RatioAboveHalf(a, b) == 2 * OverlapDuration(a, b) > Min2(Duration(a), Duration(b))
RatioExactlyHalf(a, b) ==
  /\ OverlapDuration(a, b) > 0
  /\ 2 * OverlapDuration(a, b) = Min2(Duration(a), Duration(b))

C6_ScoreInUnitInterval ==
  Generated => \A c \in Range(ret) : 0 <= c.score /\ c.score <= 100

\* the terms of the score, in hundredths
DetailTerm(d) ==
  (IF "peak_count" \in DOMAIN d THEN Min2(d.peak_count, 30) ELSE 0)
  + (IF "total_count" \in DOMAIN d THEN Min2(2 * d.total_count, 20) ELSE 0)
DetailSum(c) == SumSeq([i \in DOMAIN c.all_details |-> DetailTerm(c.all_details[i])])

\* a returned candidate whose terms add up to more than 1.0
C6_Witness ==
  /\ Generated
  /\ \E c \in Range(ret) : Min2(30 * Len(c.reasons), 60) + DetailSum(c) > 100

\* C7: the score is min(1, min(0.3 * D, 0.6) + detail terms) with D the number
\* of distinct reasons of the candidate
C7_ScoreByDistinctReasons ==
  Generated =>
    \A c \in Range(ret) :
      c.score = Min2(100, Min2(30 * Cardinality(Range(c.reasons)), 60) + DetailSum(c))

\* C8: every returned candidate is within the duration bounds; a merged
\* candidate outside them is not returned
C8_DurationWithinBounds ==
  Generated =>
    /\ \A c \in Range(ret) : args[1] <= Duration(c) /\ Duration(c) <= args[2]
    /\ \A m \in DOMAIN merged_all :
         (Duration(merged_all[m]) < args[1] \/ Duration(merged_all[m]) > args[2])
         => ~\E c \in Range(ret) : c.start = merged_all[m].start /\ c.end = merged_all[m].end

\* an accumulator that merged candidates within the bounds into an interval
\* longer than max_duration
C8_Witness ==
  /\ Generated
  /\ \E m \in DOMAIN merged_all :
       /\ RunLens[m] >= 2
       /\ Duration(merged_all[m]) > args[2]
       /\ \A k \in RunLo(m)..RunHi(m) :
            args[1] <= Duration(raw_sorted[k]) /\ Duration(raw_sorted[k]) <= args[2]

\* C9: the returned list is in non-increasing score order, candidates of equal
\* score in the order of the merge pass (ascending start)
C9_OrderedByScore ==
  Generated =>
    \A i, j \in DOMAIN ret :
      i < j => /\ ret[i].score >= ret[j].score
               /\ ret[i].score = ret[j].score => ret[i].start < ret[j].start

\* the sort moved a later candidate to the front and kept a tie in place
C9_Witness ==
  /\ Generated
  /\ \E i, j \in DOMAIN ret : i < j /\ ret[i].start > ret[j].start
  /\ \E i, j \in DOMAIN ret : i < j /\ ret[i].score = ret[j].score

\* C10: with both analyzers absent, with both tables empty, and whenever no
\* producer yields a candidate, the call returns the empty list and raises nothing
C10_EmptyWithoutError ==
  Generated =>
    /\ (~comment_analyzer /\ ~subtitle_analyzer) => (ret = <<>> /\ raised = "")
    /\ (chat_df = <<>> /\ subtitle_df = <<>>) => (ret = <<>> /\ raised = "")
    /\ raw_sorted = <<>> => (ret = <<>> /\ raised = "")

\* both analyzers are present, the producers ran over comments and none
\* yielded a candidate
C10_Witness ==
  /\ Generated
  /\ comment_analyzer /\ chat_df # <<>>
  /\ subtitle_analyzer
  /\ raw_sorted = <<>>
  /\ ret = <<>>

\* C11: a call with min_duration > max_duration is rejected with an error and
\* never answered with a normal result
C11_InvertedBoundsRejected ==
  (Generated /\ args[1] > args[2]) => raised # ""

\* the records of a chat batch in file order, and those that carry a timestamp
ChatRecords(batch) == Flatten(batch)
HasTimestamp(r) == "timestampUsec" \in DOMAIN r
IsComplete(sub) == {"start", "duration", "text"} \subseteq DOMAIN sub

\* C12: parsing drops exactly the records that miss a required field: the
\* batch never fails and the table holds one row per complete record, none
\* for a record without a timestamp
C12_MalformedRecordDropped ==
  /\ (/\ op = "parse_chat_to_dataframe"
      /\ \A e \in DOMAIN args : \A i \in DOMAIN args[e] :
           HasTimestamp(args[e][i]) => args[e][i].timestampUsec.digits)
     => /\ raised = ""
        /\ Len(ret) = Len(SelectSeq(ChatRecords(args), HasTimestamp))
  /\ op = "parse_subtitle_to_dataframe" =>
       /\ raised = ""
       /\ Len(ret) = Len(SelectSeq(args, IsComplete))

\* a min_segment_duration below every duration: no segment is filtered out
NoMinimum == 0 - 1000

\* the segments of the table before the minimum-duration filter: every row is
\* in exactly one of them, segment m holding the rows up to SegHi(m)
AllSegments == segment_by_silence(subtitle_df, args[1], NoMinimum)
SegLens == [m \in DOMAIN AllSegments |-> AllSegments[m].subtitle_count]
SegHi(m) == SumSeq(SubSeq(SegLens, 1, m))

SameSegment(a, b) ==
  a.start = b.start /\ a.end = b.end /\ a.subtitle_count = b.subtitle_count

\* rows i and i + 1 are exactly min_gap_seconds apart
ExactGap(i) == subtitle_df[i + 1].start - subtitle_df[i].end = args[1]

\* C13: two adjacent subtitles exactly min_gap_seconds apart are separated: the
\* gap is recorded at the end of the first, and a segment closes between them
C13_ExactGapSeparates ==
  /\ op = "detect_silence_gaps" =>
       \A i \in 1..(Len(subtitle_df) - 1) :
         ExactGap(i) =>
           \E g \in DOMAIN ret :
             ret[g] = [gap_start |-> subtitle_df[i].end,
                       gap_end |-> subtitle_df[i + 1].start,
                       gap_duration |-> args[1]]
  /\ op = "segment_by_silence" =>
       /\ SumSeq(SegLens) = Len(subtitle_df)
       /\ \A i \in 1..(Len(subtitle_df) - 1) :
            ExactGap(i) => \E m \in DOMAIN AllSegments : SegHi(m) = i
       /\ \A r \in DOMAIN ret :
            \E m \in DOMAIN AllSegments : SameSegment(ret[r], AllSegments[m])

\* two rows exactly min_gap_seconds apart, each kept in a segment of its own
C13_Witness ==
  /\ op = "segment_by_silence"
  /\ Len(subtitle_df) = 2
  /\ ExactGap(1)
  /\ Len(ret) = 2
  /\ ret[1].end = subtitle_df[1].end
  /\ ret[2].start = subtitle_df[2].start

NoGapAtAll ==
  \A i \in 1..(Len(subtitle_df) - 1) :
    subtitle_df[i + 1].start - subtitle_df[i].end < args[1]

\* C14: a non-empty table without a gap of min_gap_seconds yields one segment
\* from the first start to the last end holding every row when that span is
\* at least min_segment_duration, and no segment otherwise
C14_NoGapOneSegment ==
  (op = "segment_by_silence" /\ subtitle_df # <<>> /\ NoGapAtAll) =>
    LET first == subtitle_df[1]
        last == subtitle_df[Len(subtitle_df)]
    IN  IF last.end - first.start >= args[2]
        THEN /\ Len(ret) = 1
             /\ ret[1].segment_id = 0
             /\ ret[1].start = first.start
             /\ ret[1].end = last.end
             /\ ret[1].duration = last.end - first.start
             /\ ret[1].subtitle_count = Len(subtitle_df)
        ELSE ret = <<>>

\* several rows without a gap, spanning exactly min_segment_duration
C14_Witness ==
  /\ op = "segment_by_silence"
  /\ Len(subtitle_df) >= 2
  /\ NoGapAtAll
  /\ args[2] > 0
  /\ subtitle_df[Len(subtitle_df)].end - subtitle_df[1].start = args[2]
  /\ Len(ret) = 1

\* C15: the overlap ratio is symmetric in its two candidates
C15_OverlapSymmetric ==
  op = "_calculate_overlap" => ret = _calculate_overlap(args[2], args[1])

\* a partial overlap of two candidates of different durations
C15_Witness ==
  /\ op = "_calculate_overlap"
  /\ args[1].end - args[1].start < args[2].end - args[2].start
  /\ args[1].start < args[2].start
  /\ ret[1] > 0
  /\ ret[1] < ret[2]

CalledFindPeaks == op = "find_peaks"

\* row i of a time-ordered table opens a new group: it starts more than
\* min_gap_seconds after the end of the row before it
OpensGroup(rows, i) == rows[i].bin_start - rows[i - 1].bin_end > args[2] * Tick

\* the group of row i, counting the groups from 1
GroupOf(rows, i) == 1 + Cardinality({j \in 2..i : OpensGroup(rows, j)})

CandidateBins ==
  LET threshold100 == percentile100(Counts(binned_df), args[1])
      above(r) == r.count * 100 >= threshold100
  IN  SelectSeq(binned_df, above)

\* the candidate bins of group k, and the earliest of maximal count among them
GroupMembers(k) == {i \in DOMAIN CandidateBins : GroupOf(CandidateBins, i) = k}
Representative(k) ==
  SetMin({i \in GroupMembers(k) :
            \A j \in GroupMembers(k) : CandidateBins[j].count <= CandidateBins[i].count})

\* C17: a peak copies start, end, count and rate from the earliest bin of
\* maximal count of its group, so it is one bin wide
C17_PeakIsMaxBin ==
  (CalledFindPeaks /\ binned_df # <<>>) =>
    \A k \in DOMAIN ret :
      LET repr == CandidateBins[Representative(k)]
      IN  /\ ret[k].time = repr.bin_start
          /\ ret[k].time_end = repr.bin_end
          /\ ret[k].count = repr.count
          /\ ret[k].comment_rate = repr.comment_rate
          /\ ret[k].time_end - ret[k].time = repr.comment_rate[2] * Tick

\* a group of several bins, two of them tied at the maximal count
C17_Witness ==
  /\ CalledFindPeaks
  /\ binned_df # <<>>
  /\ \E k \in DOMAIN ret :
       /\ \E i, j \in GroupMembers(k) :
            /\ i < j
            /\ CandidateBins[i].count = ret[k].count
            /\ CandidateBins[j].count = ret[k].count
       /\ \E i \in GroupMembers(k) : CandidateBins[i].bin_end > ret[k].time_end

CalledFrequency == op = "get_keyword_frequency_over_time"

\* record i of the chat matches keyword k of the default list, case ignored
MatchesKeyword(i, k) == Search(DefaultReactionKeywords[k].lit, chat_df[i].message, FALSE)

\* record i of the chat is in the bin that row r of the frequency table names
InBinOf(i, r) ==
  LET b == bin_column(chat_df, args[1])[i]
  IN  b # NaN /\ bin_edges(chat_df, args[1])[b + 1] = r.bin_start

KeywordIndex(name) == CHOOSE k \in DOMAIN DefaultReactionKeywords :
                        DefaultReactionKeywords[k].name = name

\* C19: a row of the frequency table counts the records of its bin matching
\* its keyword, no row has a zero count, and the counts sum to the number of
\* matching (record, keyword) pairs
C19_FrequencyCountsMatches ==
  CalledFrequency =>
    /\ \A r \in DOMAIN ret :
         /\ ret[r].count > 0
         /\ ret[r].count =
              Cardinality({i \in DOMAIN chat_df :
                             InBinOf(i, ret[r]) /\ MatchesKeyword(i, KeywordIndex(ret[r].keyword))})
    /\ SumSeq(Counts(ret)) =
         Cardinality({p \in (DOMAIN chat_df) \X (DOMAIN DefaultReactionKeywords) :
                        MatchesKeyword(p[1], p[2])})

CalledTopicChanges == op = "detect_topic_changes"

\* the keywords of the default list, by position, that the text of row i holds
TopicHits(i) ==
  {k \in DOMAIN DefaultTopicKeywords :
     Search(DefaultTopicKeywords[k].lit, subtitle_df[i].text, TRUE)}

\* the rows holding at least one keyword, and the j-th of them in table order
TopicRows == {i \in DOMAIN subtitle_df : TopicHits(i) # {}}
TopicRow(j) == CHOOSE i \in TopicRows : Cardinality({h \in TopicRows : h <= i}) = j

\* C18: one change per subtitle holding a keyword, in subtitle order, at the
\* subtitle's start and with the first keyword of the list that matches;
\* nothing for a subtitle holding none
C18_OneChangePerSubtitle ==
  CalledTopicChanges =>
    /\ Len(ret) = Cardinality(TopicRows)
    /\ \A j \in DOMAIN ret :
         /\ ret[j].time = subtitle_df[TopicRow(j)].start
         /\ ret[j].text = subtitle_df[TopicRow(j)].text
         /\ ret[j].keyword = DefaultTopicKeywords[SetMin(TopicHits(TopicRow(j)))].name

\* a table with a subtitle holding two keywords and a subtitle holding none
C18_Witness ==
  /\ CalledTopicChanges
  /\ \E i \in DOMAIN subtitle_df : Cardinality(TopicHits(i)) >= 2
  /\ \E i \in DOMAIN subtitle_df : TopicHits(i) = {}
  /\ ret # <<>>
  /\ Len(ret) < Len(subtitle_df)

CalledSegments == op = "segment_by_silence"

\* the rows of the entries a table was parsed from, in the order of the file
EntryRows(entries) ==
  [i \in DOMAIN entries |-> Sub(entries[i].start, entries[i].duration, entries[i].text)]

\* C20 as stated: whatever the row order of the analyzer's table, the segments
\* are those of the same rows sorted by start
C20_SameAsSortedTable ==
  CalledSegments =>
    ret = segment_by_silence(sort_values(subtitle_df, StartKey), args[1], args[2])

\* C20: for a table parsed by DataParser from entries in any order, the
\* segments are those of the entries sorted by start
C20_ParsedEntriesSorted ==
  (CalledSegments /\ parsed_from # <<>>) =>
    /\ IsSortedBy(subtitle_df, StartKey)
    /\ ret = segment_by_silence(sort_values(EntryRows(parsed_from), StartKey),
                                args[1], args[2])

\* entries out of order in the file, whose segments in file order would differ
C20_Witness ==
  /\ CalledSegments
  /\ parsed_from # <<>>
  /\ ~IsSortedBy(parsed_from, StartKey)
  /\ ret # <<>>
  /\ ret # segment_by_silence(EntryRows(parsed_from), args[1], args[2])

\* the closed runs of the table that reach the minimum duration of the call
LongEnough(seg) == seg.duration >= args[2]
KeptRuns == SelectSeq(AllSegments, LongEnough)

\* C21: the emitted segments are exactly the closed runs of at least
\* min_segment_duration, unchanged by the runs dropped around them, and
\* numbered 0, 1, ... in emission order
C21_EmittedRunsRenumbered ==
  CalledSegments =>
    /\ Len(ret) = Len(KeptRuns)
    /\ \A j \in DOMAIN ret :
         /\ ret[j].segment_id = j - 1
         /\ ret[j].end - ret[j].start >= args[2]
         /\ ret[j].start = KeptRuns[j].start
         /\ ret[j].end = KeptRuns[j].end
         /\ ret[j].duration = KeptRuns[j].duration
         /\ ret[j].subtitle_count = KeptRuns[j].subtitle_count
         /\ ret[j].text = KeptRuns[j].text

\* a run dropped ahead of a run that is emitted
C21_Witness ==
  /\ CalledSegments
  /\ ret # <<>>
  /\ \E m, n \in DOMAIN AllSegments :
       /\ m < n
       /\ ~LongEnough(AllSegments[m])
       /\ LongEnough(AllSegments[n])

\* the peaks of the 10-second binning, as the producer takes them
SurgePeaks ==
  IF comment_analyzer THEN find_peaks(bin_comments_by_time(chat_df, 10), 75, 30) ELSE <<>>

\* the interval proposed for a peak, and its place within the duration bounds
SurgeStart(pk) == Max2(0, pk.time - 15 * Tick)
SurgeEnd(pk) == Min2(pk.time_end + 30 * Tick, pk.time + 60 * Tick)
SurgeKept(pk) ==
  args[1] <= SurgeEnd(pk) - SurgeStart(pk) /\ SurgeEnd(pk) - SurgeStart(pk) <= args[2]

\* the raw candidates of the comment-peak producer
IsSurge(c) == c.reason = "comment surge"
Surges == SelectSeq(raw_sorted, IsSurge)

\* C22: each peak of the 10-second binning whose interval
\* [max(0, start - 15), min(end + 30, start + 60)] is within the bounds yields
\* one 'comment surge' candidate with that interval, every other peak none
C22_SurgePerPeakWithinBounds ==
  Generated =>
    /\ Len(Surges) = Cardinality({k \in DOMAIN SurgePeaks : SurgeKept(SurgePeaks[k])})
    /\ \A k \in DOMAIN SurgePeaks :
         LET of_peak(c) == c.details.peak_time = SurgePeaks[k].time
             found == SelectSeq(Surges, of_peak)
         IN  IF SurgeKept(SurgePeaks[k])
             THEN /\ Len(found) = 1
                  /\ found[1].start = SurgeStart(SurgePeaks[k])
                  /\ found[1].end = SurgeEnd(SurgePeaks[k])
                  /\ found[1].details.peak_count = SurgePeaks[k].count
             ELSE found = <<>>

\* bounds in order, a peak at the start of the video whose shortened interval
\* is below min_duration, and a later peak that yields a candidate
C22_Witness ==
  /\ Generated
  /\ args[1] <= args[2]
  /\ \E k \in DOMAIN SurgePeaks :
       /\ SurgeStart(SurgePeaks[k]) = 0
       /\ ~SurgeKept(SurgePeaks[k])
  /\ \E k \in DOMAIN SurgePeaks : SurgeKept(SurgePeaks[k])
  /\ Surges # <<>>

\* generate_candidates on analyzers freshly built over the caller's tables
FreshCandidates ==
  generate_candidates(TRUE, caller_tables.chat_df, TRUE, caller_tables.subtitle_df,
                      args[1], args[2], DefaultReactionKeywords)

CalledMerge == op = "_merge_and_score_candidates"

AllProper == \A k \in DOMAIN args[1] : args[1][k].start < args[1][k].end

\* the accumulator of the sweep a result candidate was
AccumulatorOf(c) ==
  CHOOSE m \in DOMAIN merged_all : merged_all[m].all_details = c.all_details

\* C24: for raw candidates with start < end, two distinct result candidates
\* have an overlap ratio of at most one half, and two that were not
\* consecutive accumulators of the sweep do not overlap at all
C24_ResultsOverlapAtMostHalf ==
  (CalledMerge /\ AllProper) =>
    \A i, j \in DOMAIN ret :
      i < j =>
        /\ ~RatioAboveHalf(ret[i], ret[j])
        /\ AccumulatorOf(ret[j]) > AccumulatorOf(ret[i]) + 1
             => OverlapDuration(ret[i], ret[j]) = 0

\* three result candidates, each overlapping the next, the first and the
\* third accumulators apart
C24_Witness ==
  /\ CalledMerge
  /\ AllProper
  /\ Len(ret) = 3
  /\ OverlapDuration(ret[1], ret[2]) > 0
  /\ OverlapDuration(ret[2], ret[3]) > 0
  /\ AccumulatorOf(ret[3]) > AccumulatorOf(ret[1]) + 1

\* the gap between row i and the next row
GapAfter(i) == subtitle_df[i + 1].start - subtitle_df[i].end

\* a segment closes between row i and the next row
SplitAfter(i) == \E m \in DOMAIN AllSegments : SegHi(m) = i

\* C25: with the subtitles ordered by start, two adjacent subtitles are in
\* different segments only if the gap between them is at least
\* min_gap_seconds; a gap elsewhere does not split a pair without one
C25_SplitOnlyAtGap ==
  (CalledSegments /\ IsSortedBy(subtitle_df, StartKey)) =>
    \A i \in 1..(Len(subtitle_df) - 1) :
      SplitAfter(i) => GapAfter(i) >= args[1]

\* the accumulators holding the k-th raw candidate of the call
AbsorbedBy(k) ==
  {m \in DOMAIN merged_all : args[1][k].details \in Range(merged_all[m].all_details)}

\* accumulator m is among the returned candidates
Returned(m) == \E c \in Range(ret) : c.all_details = merged_all[m].all_details

\* C26: every raw candidate is absorbed into exactly one accumulator; the
\* accumulators are consecutive runs of the start-sorted input, each with the
\* interval [min start, max end] of its run and one reason and one details
\* entry per absorbed candidate in order; an accumulator is returned if and
\* only if its final duration is within [min_duration, max_duration]
C26_AccumulatorsAreRuns ==
  CalledMerge =>
    /\ SumSeq(RunLens) = Len(raw_sorted)
    /\ Len(raw_sorted) = Len(args[1])
    /\ \A k \in DOMAIN args[1] : Cardinality(AbsorbedBy(k)) = 1
    /\ \A m \in DOMAIN merged_all :
         /\ RunLens[m] >= 1
         /\ merged_all[m].start = Hull(RunLo(m), RunHi(m)).start
         /\ merged_all[m].end = Hull(RunLo(m), RunHi(m)).end
         /\ merged_all[m].reasons =
              [k \in 1..RunLens[m] |-> raw_sorted[RunLo(m) + k - 1].reason]
         /\ merged_all[m].all_details =
              [k \in 1..RunLens[m] |-> raw_sorted[RunLo(m) + k - 1].details]
         /\ Returned(m) <=> (args[2] <= Duration(merged_all[m])
                              /\ Duration(merged_all[m]) <= args[3])
    /\ Len(ret) = Cardinality({m \in DOMAIN merged_all : Returned(m)})

\* an accumulator that absorbed several candidates and ends later than its
\* first one, returned, next to an accumulator that is not
C26_Witness ==
  /\ CalledMerge
  /\ \E m, n \in DOMAIN merged_all :
       /\ RunLens[m] >= 2
       /\ merged_all[m].end > raw_sorted[RunLo(m)].end
       /\ Returned(m)
       /\ ~Returned(n)

\* the largest count of the bin table
MaxCount == SetMax(Range(Counts(binned_df)))

Memberships ==
  [DOMAIN ret -> {p \in (DOMAIN subtitle_df) \X (DOMAIN subtitle_df) : p[1] <= p[2]}]

\* segment r holds the consecutive rows f[r][1]..f[r][2], later segments
\* later rows
IsMembership(f) ==
  /\ \A r \in DOMAIN ret :
       /\ ret[r].subtitle_count = f[r][2] - f[r][1] + 1
       /\ ret[r].start = subtitle_df[f[r][1]].start
       /\ ret[r].end = subtitle_df[f[r][2]].end
       /\ ret[r].text =
            join_texts([k \in 1..ret[r].subtitle_count |-> subtitle_df[f[r][1] + k - 1].text])
  /\ \A q, r \in DOMAIN ret : q < r => f[q][2] < f[r][1]

EmittedCounts == [r \in DOMAIN ret |-> ret[r].subtitle_count]

\* C28: every subtitle is in at most one emitted segment and the members of a
\* segment are consecutive subtitles in input order, so the subtitle_count
\* values sum to at most the number of subtitles, and to exactly that number
\* when the minimum-duration filter drops no run
C28_SegmentsPartitionRows ==
  CalledSegments =>
    /\ \E f \in Memberships : IsMembership(f)
    /\ SumSeq(EmittedCounts) <= Len(subtitle_df)
    /\ Len(ret) = Len(AllSegments) => SumSeq(EmittedCounts) = Len(subtitle_df)

\* two emitted segments around a run that the filter dropped
C28_Witness ==
  /\ CalledSegments
  /\ Len(ret) = 2
  /\ Len(AllSegments) = 3
  /\ SumSeq(EmittedCounts) < Len(subtitle_df)
  /\ ret[1].end < ret[2].start

\* C29: every candidate generate_candidates returns has at least one reason
\* and a score of at least 0.3, and as many reasons as details entries
C29_ReasonedAndScored ==
  Generated =>
    \A c \in Range(ret) :
      /\ Len(c.reasons) >= 1
      /\ c.reason # {}
      /\ c.score >= 30
      /\ Len(c.reasons) = Len(c.all_details)

\* a candidate of one reason scoring exactly 0.3 returned with a candidate
\* merged from several
C29_Witness ==
  /\ Generated
  /\ \E c \in Range(ret) : Len(c.reasons) = 1 /\ c.score = 30
  /\ \E c \in Range(ret) : Len(c.reasons) >= 2 /\ c.score > 30

BothOrdered == args[1].start <= args[1].end /\ args[2].start <= args[2].end

\* C30: for two candidates with start <= end, _calculate_overlap returns a
\* value in [0, 1] and does not divide by zero: with a candidate of zero
\* duration, or without an overlap, it returns 0.0 before the division
C30_OverlapRatioInUnitInterval ==
  (op = "_calculate_overlap" /\ BothOrdered) =>
    /\ raised = ""
    /\ ret[2] > 0
    /\ 0 <= ret[1] /\ ret[1] <= ret[2]
    /\ (\/ Duration(args[1]) = 0
        \/ Duration(args[2]) = 0
        \/ OverlapDuration(args[1], args[2]) = 0) => ret = <<0, 1>>

\* a candidate of zero duration inside the other candidate
C30_Witness ==
  /\ op = "_calculate_overlap"
  /\ BothOrdered
  /\ Duration(args[1]) = 0
  /\ args[2].start < args[1].start
  /\ args[1].end < args[2].end
  /\ ret = <<0, 1>>

====
